---- MODULE Spec2Model ----
(***************************************************************************)
(* A model of booktoki.py: the challenge-bypass navigator                  *)
(* (CloudflareBypass), the site scraper's episode walk and text formatter  *)
(* (BookTokiCrawler), and the text-to-image paginator with its line        *)
(* wrapping and its worker pool (NovelImageConverter, process_file,        *)
(* convert_novel_folder).                                                  *)
(*                                                                         *)
(* Time is counted in units of half a second, the smallest sleep of the    *)
(* program (time.sleep(0.5) in emulate_human_behavior).  A sleep advances  *)
(* the clock by its length, a Selenium wait that times out by its timeout; *)
(* every other driver call is taken to return at once, which is the        *)
(* slowest the polling loops can approach their deadlines.                 *)
(***************************************************************************)
EXTENDS Integers, Sequences, FiniteSets, TLC

(***************************************************************************)
(* Bounds of the model.                                                    *)
(***************************************************************************)
\* largest max_retries a caller passes to visit_page
MaxRetries == 2
\* number of visit_page calls made on one navigator
MaxVisits == 2
\* the counts kept of one attempt stop counting here
MaxCount == 8

(***************************************************************************)
(* Program constants, in half seconds.                                     *)
(***************************************************************************)
PageLoadTimeout == 30
JsChallengeTimeout == 10
ScrollSleep == 1
TurnstileSleep == 4
CheckboxWait == 6
ClickSleep == 4
AfterFrameSleep == 2
TurnstileOkSleep == 2
TurnstileFailSleep == 4
JsPollSleep == 2
RetrySleep == 6

(***************************************************************************)
(* What a read of driver.page_source can show: no interstitial phrase, the *)
(* phrase "please wait" alone (looked for by _wait_for_page_load and       *)
(* _wait_for_js_challenge but not by handle_turnstile), or one of the five *)
(* phrases all three lists share.                                          *)
(***************************************************************************)
PageKinds == {"clean", "please_wait", "challenge"}

WaitPhrases == {"please_wait", "challenge"}

TurnstilePhrases == {"challenge"}

VARIABLES
    pc,             \* position of the program
    driver,         \* self.driver: "none" or "session"
    session,        \* identity of the current browser session, 0 when none
    sessions,       \* number of sessions created so far
    stealth,        \* the stealth script is installed in the current session
    cookies,        \* the profile holds cookies of a visited page
    localStorage,   \* the profile holds localStorage of a visited page
    sessionStorage, \* the session holds sessionStorage of a visited page
    max_retries,    \* argument of the running visit_page call
    attempt,        \* loop variable of visit_page
    elapsed,        \* time.time() - start_time in _wait_for_page_load
    jsElapsed,      \* time.time() - start in _wait_for_js_challenge
    result,         \* what visit_page returned: "pending", "success", "failure"
    visits,         \* visit_page calls made so far
    hist,           \* observations of the running visit (history only)
    entries,        \* the li.list-item elements of the table of contents
    idx,            \* position of parse_episode_list in li_list
    current_url,    \* driver.current_url: 0 the start page, k chapter k
    files,          \* the text files on disk: path and the chapter written
    visited,        \* the chapters crawled, in order, and whether each was saved
    bases,          \* the base URL each chapter link was resolved against
    listed,         \* parse_episode_list found the list and walks it
    lines,          \* the wrapped lines handed to split_into_pages
    lines_per_page, \* converter.lines_per_page
    li,             \* position of split_into_pages in lines
    current_page,   \* current_page of split_into_pages
    pages,          \* pages of split_into_pages: each a joined string
    images,         \* the image files process_file has written, in order
    content,        \* the text process_file read from its file
    width,          \* converter.width, the width of an image in pixels
    line,           \* argument of process_line
    split_lines,    \* what process_line returned
    text,           \* argument of format_text_for_readability
    max_line_length,\* argument of format_text_for_readability
    formatted,      \* what format_text_for_readability returned
    tasks,          \* the tasks convert_novel_folder hands to the pool
    num_processes,  \* the size of the pool
    queue,          \* the chunks of tasks no worker has taken yet
    workers,        \* what each worker process of the pool is doing
    status,         \* how far the pool has got with each task
    saved,          \* the pages of each task whose image was saved
    disk            \* the image files on disk and the tasks that wrote them

vars == <<pc, driver, session, sessions, stealth, cookies, localStorage,
          sessionStorage, max_retries, attempt, elapsed, jsElapsed, result,
          visits, hist, entries, idx, current_url, files, visited, bases,
          listed, lines, lines_per_page, li, current_page, pages, images,
          content, width, line, split_lines, text, max_line_length, formatted,
          tasks, num_processes, queue, workers, status, saved, disk>>

\* the state of the scraper's episode walk
scraper == <<entries, idx, current_url, files, visited, bases, listed>>

\* the state of one paginator task
paginator == <<lines, lines_per_page, li, current_page, pages, images>>

\* the file and the image width of a paginator task, which no step changes
converter == <<content, width>>

\* the state of one call of process_line
wrapper == <<line, split_lines>>

\* the state of one call of format_text_for_readability
formatter == <<text, max_line_length, formatted>>

\* the state of the worker pool of convert_novel_folder
pool == <<tasks, num_processes, queue, workers, status, saved, disk>>

\* what the scraper's steps leave alone besides the navigator
beyondScraper == <<paginator, converter, wrapper, formatter, pool>>

\* what the navigator's steps leave alone
others == <<scraper, beyondScraper>>

browser == <<driver, session, sessions, stealth, cookies, localStorage,
             sessionStorage>>

clocks == <<elapsed, jsElapsed>>

\* the record of a driver.get call: the state of the session it was issued on
NoNav == [n |-> 0, session |-> 0, stealth |-> FALSE, cookies |-> FALSE,
          localStorage |-> FALSE, sessionStorage |-> FALSE, slept |-> FALSE,
          prevEnd |-> "none", prevSession |-> 0, fresh |-> FALSE,
          cleared |-> FALSE, prevLoaded |-> FALSE]

\* the observations kept of one visit_page call
NewHist == [navCount |-> 0, waitOk |-> 0, failed |-> 0, raised |-> 0,
            raisedAt |-> "none", prevEnd |-> "none", prevSession |-> 0,
            slept |-> FALSE, sawPhrase |-> FALSE, pollReads |-> 0,
            emulateCalls |-> 0, turnstileCalls |-> 0, jsCalls |-> 0,
            verified |-> "none", created |-> FALSE, loaded |-> FALSE,
            prevLoaded |-> FALSE, cleared |-> FALSE, lastNav |-> NoNav]

\* one more call or read observed in the attempt
Counted(n) == IF n < MaxCount THEN n + 1 ELSE n

\* no episode walk is running
ScraperIdle ==
    /\ entries = <<>>
    /\ idx = 0
    /\ current_url = 0
    /\ files = {}
    /\ visited = <<>>
    /\ bases = <<>>
    /\ listed = FALSE

\* no paginator task is running
PaginatorIdle ==
    /\ lines = <<>>
    /\ lines_per_page = 0
    /\ li = 0
    /\ current_page = <<>>
    /\ pages = <<>>
    /\ images = <<>>

\* no converter has been constructed
ConverterIdle ==
    /\ content = <<>>
    /\ width = 0

\* no call of process_line is running
WrapperIdle ==
    /\ line = <<>>
    /\ split_lines = <<>>

\* no call of format_text_for_readability is running
FormatterIdle ==
    /\ text = <<>>
    /\ max_line_length = 0
    /\ formatted = <<>>

\* no pool has been started
PoolIdle ==
    /\ tasks = <<>>
    /\ num_processes = 0
    /\ queue = <<>>
    /\ workers = <<>>
    /\ status = <<>>
    /\ saved = <<>>
    /\ disk = {}

\* a navigator right after construction, before its first visit
NavigatorNew ==
    /\ driver = "none"
    /\ session = 0
    /\ sessions = 0
    /\ stealth = FALSE
    /\ cookies = FALSE
    /\ localStorage = FALSE
    /\ sessionStorage = FALSE
    /\ max_retries = 0
    /\ attempt = 0
    /\ elapsed = 0
    /\ jsElapsed = 0
    /\ result = "pending"
    /\ visits = 0
    /\ hist = NewHist

Init ==
    /\ ScraperIdle
    /\ PaginatorIdle
    /\ ConverterIdle
    /\ WrapperIdle
    /\ FormatterIdle
    /\ PoolIdle
    /\ pc = "idle"
    /\ driver = "none"
    /\ session = 0
    /\ sessions = 0
    /\ stealth = FALSE
    /\ cookies \in BOOLEAN
    /\ localStorage \in BOOLEAN
    /\ sessionStorage = FALSE
    /\ max_retries = 0
    /\ attempt = 0
    /\ elapsed = 0
    /\ jsElapsed = 0
    /\ result = "pending"
    /\ visits = 0
    /\ hist = NewHist

(***************************************************************************)
(* visit_page: for attempt in range(max_retries).                          *)
(***************************************************************************)
\* mutant: the loop runs once more than asked
LoopGuard_OneMore(a, m) == a <= m

LoopGuard(a, m) == a < m

\* the test `attempt < max_retries - 1` of both the retry and the except branch
AttemptsRemain(a, m) == a < m - 1

\* _wait_for_page_load returns True whatever verify_page_loaded answered:
\* `return True` follows the `if self.verify_page_loaded():` block
PageWaitResult(verifiedOk) == TRUE

\* mutant: the test of the load wait taken the wrong way round
LoadPhraseFound_Inverted(kind) == kind \notin WaitPhrases

\* `if any(w in ps for w in [...six phrases...])` of _wait_for_page_load
LoadPhraseFound(kind) == kind \in WaitPhrases

\* `if not any(word in page_source ...)` of _wait_for_js_challenge
JsChallengePassed(kind) == kind \notin WaitPhrases

\* the five-phrase test that ends handle_turnstile
TurnstileStillDetected(kind) == kind \in TurnstilePhrases

\* the attempt that ends without a return: what it leaves for the next one to
\* be compared with; the counts kept of the attempt start again
EndAttempt(h, how) ==
    [h EXCEPT !.failed = @ + 1, !.prevEnd = how, !.prevSession = session,
              !.pollReads = 0, !.emulateCalls = 0, !.turnstileCalls = 0,
              !.jsCalls = 0, !.verified = "none", !.created = FALSE,
              !.loaded = FALSE, !.prevLoaded = h.loaded]

\* a caller (run_main_page, crawl_episode_content) calls visit_page
VisitPage(m) ==
    /\ pc = "idle"
    /\ visits < MaxVisits
    /\ visits' = visits + 1
    /\ max_retries' = m
    /\ attempt' = 0
    /\ result' = "pending"
    /\ hist' = NewHist
    /\ pc' = "loop"
    /\ UNCHANGED <<browser, clocks>>
    /\ UNCHANGED others

\* the loop takes its next value and enters the try block
NextAttempt ==
    /\ pc = "loop"
    /\ LoopGuard(attempt, max_retries)
    /\ pc' = "init"
    /\ UNCHANGED <<browser, clocks, max_retries, attempt, result, visits, hist>>
    /\ UNCHANGED others

\* the loop is exhausted: `return False`
ReturnFailure ==
    /\ pc = "loop"
    /\ ~LoopGuard(attempt, max_retries)
    /\ result' = "failure"
    /\ pc' = "returned"
    /\ UNCHANGED <<browser, clocks, max_retries, attempt, visits, hist>>
    /\ UNCHANGED others

\* `if not self.driver: self.driver = self._create_driver()`
CreateDriver ==
    /\ pc = "init"
    /\ driver = "none"
    /\ \/ /\ driver' = "session"
          /\ sessions' = sessions + 1
          /\ session' = sessions + 1
          /\ stealth' = FALSE
          /\ sessionStorage' = FALSE
          /\ pc' = "inject"
          /\ hist' = [hist EXCEPT !.created = TRUE]
          /\ UNCHANGED <<cookies, localStorage>>
       \/ /\ pc' = "except"
          /\ hist' = [hist EXCEPT !.raised = @ + 1, !.raisedAt = "create"]
          /\ UNCHANGED browser
    /\ UNCHANGED <<clocks, max_retries, attempt, result, visits>>
    /\ UNCHANGED others

\* `if not self.driver` is false: the session of an earlier attempt or visit
ReuseDriver ==
    /\ pc = "init"
    /\ driver # "none"
    /\ pc' = "get"
    /\ UNCHANGED <<browser, clocks, max_retries, attempt, result, visits, hist>>
    /\ UNCHANGED others

\* self._inject_stealth_scripts(), which re-raises what the CDP call raises
InjectStealth ==
    /\ pc = "inject"
    /\ \/ /\ stealth' = TRUE
          /\ pc' = "get"
          /\ UNCHANGED hist
       \/ /\ pc' = "except"
          /\ hist' = [hist EXCEPT !.raised = @ + 1, !.raisedAt = "inject"]
          /\ UNCHANGED stealth
    /\ UNCHANGED <<driver, session, sessions, cookies, localStorage,
                   sessionStorage, clocks, max_retries, attempt, result, visits>>
    /\ UNCHANGED others

\* self.driver.get(url): the page leaves cookies and storage in the session
Navigate ==
    /\ pc = "get"
    /\ LET nav == [n |-> hist.navCount + 1, session |-> session,
                   stealth |-> stealth, cookies |-> cookies,
                   localStorage |-> localStorage,
                   sessionStorage |-> sessionStorage, slept |-> hist.slept,
                   prevEnd |-> hist.prevEnd, prevSession |-> hist.prevSession,
                   fresh |-> hist.created, cleared |-> hist.cleared,
                   prevLoaded |-> hist.prevLoaded]
           h == [hist EXCEPT !.navCount = @ + 1, !.lastNav = nav,
                             !.slept = FALSE, !.cleared = FALSE]
       IN \/ /\ cookies' = TRUE
             /\ localStorage' = TRUE
             /\ sessionStorage' = TRUE
             /\ elapsed' = 0
             /\ hist' = [h EXCEPT !.loaded = TRUE]
             /\ pc' = "poll"
          \/ /\ pc' = "except"
             /\ hist' = [h EXCEPT !.raised = @ + 1, !.raisedAt = "get"]
             /\ UNCHANGED <<cookies, localStorage, sessionStorage, elapsed>>
    /\ UNCHANGED <<driver, session, sessions, stealth, jsElapsed, max_retries,
                   attempt, result, visits>>
    /\ UNCHANGED others

\* mutant: the start time is read again on every pass of the loop
Elapse_Restarted(t, d) == 0

\* `time.time() - start` once d more half seconds have passed
Elapse(t, d) == t + d

\* the clocks are locals of the wait functions: they end with the call
ClocksEnd ==
    /\ elapsed' = 0
    /\ jsElapsed' = 0

\* a load wait that returned: visit_page returns True on True, goes on otherwise
WaitReturns(ret, h) ==
    /\ ClocksEnd
    /\ IF ret
       THEN /\ result' = "success"
            /\ hist' = [h EXCEPT !.waitOk = @ + 1]
            /\ pc' = "returned"
       ELSE /\ pc' = "failed"
            /\ hist' = h
            /\ UNCHANGED result

(***************************************************************************)
(* _wait_for_page_load: one pass of `while time.time() - start_time <      *)
(* timeout`, up to the branch on the interstitial phrases.                 *)
(***************************************************************************)
PollPage ==
    /\ pc = "poll"
    /\ IF elapsed < PageLoadTimeout
       THEN \/ \E kind \in PageKinds :
                  LET h == [hist EXCEPT !.pollReads = Counted(@)] IN
                  IF LoadPhraseFound(kind)
                  THEN /\ pc' = "emulate"
                       /\ hist' = [h EXCEPT !.sawPhrase = @ \/ kind # "clean"]
                       /\ UNCHANGED <<result, clocks>>
                  ELSE \E ok \in BOOLEAN :
                          WaitReturns(PageWaitResult(ok),
                                      [h EXCEPT !.sawPhrase = @ \/ kind # "clean",
                                                !.verified =
                                                  IF ok THEN "ok" ELSE "fail"])
            \/ /\ pc' = "except"
               /\ hist' = [hist EXCEPT !.pollReads = Counted(@), !.raised = @ + 1,
                                       !.raisedAt = "wait"]
               /\ ClocksEnd
               /\ UNCHANGED result
       ELSE WaitReturns(FALSE, hist)
    /\ UNCHANGED <<browser, max_retries, attempt, visits>>
    /\ UNCHANGED others

\* the scrolls of emulate_human_behavior that ran before it ended or raised
ScrollCount == 2

\* emulate_human_behavior: scrolls with a sleep after each; it swallows what
\* execute_script raises
EmulateHumanBehavior ==
    /\ pc = "emulate"
    /\ \E done \in 0..ScrollCount : elapsed' = Elapse(elapsed, done * ScrollSleep)
    /\ hist' = [hist EXCEPT !.emulateCalls = Counted(@)]
    /\ pc' = "turnstile"
    /\ UNCHANGED <<browser, jsElapsed, max_retries, attempt, result, visits>>
    /\ UNCHANGED others

\* what the checkbox step of handle_turnstile can take: the click and its
\* sleep, the 3 s wait timing out, or an error at once (all swallowed)
CheckboxDurations == {ClickSleep, CheckboxWait, 0}

\* handle_turnstile: the value it returns and the time it took.  False: an
\* exception or no challenge frame after the first sleep, an exception when
\* switching back, an exception or a phrase at the final read.  True: a
\* challenge frame was found and the final read shows none of the phrases.
TurnstileOutcomes ==
    {[ret |-> FALSE, dur |-> TurnstileSleep]}
    \cup {[ret |-> FALSE, dur |-> TurnstileSleep + c] : c \in CheckboxDurations}
    \cup {[ret |-> FALSE, dur |-> TurnstileSleep + c + AfterFrameSleep] :
             c \in CheckboxDurations}
    \cup {[ret |-> ~TurnstileStillDetected(kind),
           dur |-> TurnstileSleep + c + AfterFrameSleep] :
             c \in CheckboxDurations, kind \in PageKinds}

\* `if self.handle_turnstile(): time.sleep(1)`, then the call
\* self._wait_for_js_challenge(timeout=5); `else: time.sleep(2)`
HandleTurnstile ==
    /\ pc = "turnstile"
    /\ \E o \in TurnstileOutcomes :
          LET h == [hist EXCEPT !.turnstileCalls = Counted(@)] IN
          IF o.ret
          THEN /\ elapsed' = Elapse(elapsed, o.dur + TurnstileOkSleep)
               /\ jsElapsed' = 0
               /\ hist' = [h EXCEPT !.jsCalls = Counted(@)]
               /\ pc' = "jswait"
          ELSE /\ elapsed' = Elapse(elapsed, o.dur + TurnstileFailSleep)
               /\ hist' = h
               /\ pc' = "poll"
               /\ UNCHANGED jsElapsed
    /\ UNCHANGED <<browser, max_retries, attempt, result, visits>>
    /\ UNCHANGED others

(***************************************************************************)
(* _wait_for_js_challenge: one pass of `while time.time() - start <        *)
(* timeout`; on True the caller verifies the page and returns True, on     *)
(* False it falls back into the loop of _wait_for_page_load.               *)
(***************************************************************************)
WaitForJsChallenge ==
    /\ pc = "jswait"
    /\ IF jsElapsed < JsChallengeTimeout
       THEN \/ \E kind \in PageKinds :
                  IF JsChallengePassed(kind)
                  THEN \E ok \in BOOLEAN :
                          WaitReturns(PageWaitResult(ok),
                                      [hist EXCEPT !.verified =
                                                  IF ok THEN "ok" ELSE "fail"])
                  ELSE /\ jsElapsed' = Elapse(jsElapsed, JsPollSleep)
                       /\ elapsed' = Elapse(elapsed, JsPollSleep)
                       /\ UNCHANGED <<pc, result, hist>>
            \/ /\ pc' = "except"
               /\ hist' = [hist EXCEPT !.raised = @ + 1, !.raisedAt = "wait"]
               /\ ClocksEnd
               /\ UNCHANGED result
       ELSE /\ pc' = "poll"
            /\ jsElapsed' = 0
            /\ UNCHANGED <<elapsed, result, hist>>
    /\ UNCHANGED <<browser, max_retries, attempt, visits>>
    /\ UNCHANGED others

(***************************************************************************)
(* visit_page after a load wait that returned False.                       *)
(***************************************************************************)
AfterWaitFailed ==
    /\ pc = "failed"
    /\ IF AttemptsRemain(attempt, max_retries)
       THEN /\ pc' = "clear_cookies"
            /\ UNCHANGED <<attempt, hist>>
       ELSE /\ attempt' = attempt + 1
            /\ hist' = EndAttempt(hist, "timeout")
            /\ pc' = "loop"
    /\ UNCHANGED <<browser, clocks, max_retries, result, visits>>
    /\ UNCHANGED others

\* mutant: the cookies are not deleted between attempts
DeleteAllCookies_Skipped ==
    /\ pc = "clear_cookies"
    /\ pc' = "clear_local"
    /\ UNCHANGED <<browser, clocks, max_retries, attempt, result, visits, hist>>
    /\ UNCHANGED others

\* self.driver.delete_all_cookies()
DeleteAllCookies ==
    /\ pc = "clear_cookies"
    /\ \/ /\ cookies' = FALSE
          /\ pc' = "clear_local"
          /\ UNCHANGED hist
       \/ /\ pc' = "except"
          /\ hist' = [hist EXCEPT !.raised = @ + 1, !.raisedAt = "clear"]
          /\ UNCHANGED cookies
    /\ UNCHANGED <<driver, session, sessions, stealth, localStorage,
                   sessionStorage, clocks, max_retries, attempt, result, visits>>
    /\ UNCHANGED others

\* self.driver.execute_script("window.localStorage.clear();")
ClearLocalStorage ==
    /\ pc = "clear_local"
    /\ \/ /\ localStorage' = FALSE
          /\ pc' = "clear_session"
          /\ UNCHANGED hist
       \/ /\ pc' = "except"
          /\ hist' = [hist EXCEPT !.raised = @ + 1, !.raisedAt = "clear"]
          /\ UNCHANGED localStorage
    /\ UNCHANGED <<driver, session, sessions, stealth, cookies,
                   sessionStorage, clocks, max_retries, attempt, result, visits>>
    /\ UNCHANGED others

\* self.driver.execute_script("window.sessionStorage.clear();"), then
\* time.sleep(3) and the end of the loop body
ClearSessionStorage ==
    /\ pc = "clear_session"
    /\ \/ /\ sessionStorage' = FALSE
          /\ attempt' = attempt + 1
          /\ hist' = [EndAttempt(hist, "timeout") EXCEPT
                          !.slept = RetrySleep > 0, !.cleared = TRUE]
          /\ pc' = "loop"
       \/ /\ pc' = "except"
          /\ hist' = [hist EXCEPT !.raised = @ + 1, !.raisedAt = "clear"]
          /\ UNCHANGED <<sessionStorage, attempt>>
    /\ UNCHANGED <<driver, session, sessions, stealth, cookies, localStorage,
                   clocks, max_retries, result, visits>>
    /\ UNCHANGED others

\* mutant: the session is quit but self.driver keeps the reference
QuitDriver_KeepsReference ==
    /\ stealth' = FALSE
    /\ sessionStorage' = FALSE
    /\ UNCHANGED <<driver, session, sessions, cookies, localStorage>>

\* the session after `self.driver.quit(); self.driver = None`: the profile
\* directory (--user-data-dir=./chrome_profile) keeps cookies and
\* localStorage, sessionStorage goes with the session
QuitDriver ==
    /\ driver' = "none"
    /\ session' = 0
    /\ stealth' = FALSE
    /\ sessionStorage' = FALSE
    /\ UNCHANGED <<sessions, cookies, localStorage>>

\* `except Exception as e:` of visit_page
ExceptHandler ==
    /\ pc = "except"
    /\ IF AttemptsRemain(attempt, max_retries)
       THEN /\ IF driver # "none" THEN QuitDriver ELSE UNCHANGED browser
            /\ hist' = [EndAttempt(hist, "exception") EXCEPT
                            !.slept = RetrySleep > 0]
       ELSE /\ UNCHANGED browser
            /\ hist' = EndAttempt(hist, "exception")
    /\ attempt' = attempt + 1
    /\ pc' = "loop"
    /\ UNCHANGED <<clocks, max_retries, result, visits>>
    /\ UNCHANGED others

(***************************************************************************)
(* The callers of visit_page (run_main_page, crawl_episode_content): on    *)
(* success check_and_wait_captcha reads the page and, when it holds the    *)
(* captcha form, blocks in input() until the user presses Enter.           *)
(***************************************************************************)
CheckAndWaitCaptcha ==
    /\ pc = "returned"
    /\ IF result = "success"
       THEN \E form \in BOOLEAN : pc' = IF form THEN "captcha" ELSE "idle"
       ELSE pc' = "idle"
    /\ UNCHANGED <<browser, clocks, max_retries, attempt, result, visits, hist>>
    /\ UNCHANGED others

\* the user answers the prompt of wait_for_user_captcha
UserEnter ==
    /\ pc = "captcha"
    /\ pc' = "idle"
    /\ UNCHANGED <<browser, clocks, max_retries, attempt, result, visits, hist>>
    /\ UNCHANGED others

\* bypasser.close() at the end of main
Close ==
    /\ pc = "idle"
    /\ QuitDriver
    /\ pc' = "closed"
    /\ UNCHANGED <<clocks, max_retries, attempt, result, visits, hist>>
    /\ UNCHANGED others

\* every step the program takes by itself
ProgramStep ==
    \/ \E m \in 0..MaxRetries : VisitPage(m)
    \/ NextAttempt
    \/ ReturnFailure
    \/ CreateDriver
    \/ ReuseDriver
    \/ InjectStealth
    \/ Navigate
    \/ PollPage
    \/ EmulateHumanBehavior
    \/ HandleTurnstile
    \/ WaitForJsChallenge
    \/ AfterWaitFailed
    \/ DeleteAllCookies
    \/ ClearLocalStorage
    \/ ClearSessionStorage
    \/ ExceptHandler
    \/ CheckAndWaitCaptcha
    \/ Close

Next == ProgramStep \/ UserEnter

Spec == Init /\ [][Next]_vars

\* the program is sequential: a step that can be taken is taken
FairSpec == Spec /\ WF_vars(ProgramStep)

(***************************************************************************)
(* The site scraper: BookTokiCrawler.run, parse_episode_list and           *)
(* crawl_episode_content.  A string is a sequence of characters.           *)
(***************************************************************************)
\* largest number of li.list-item elements of the table of contents
MaxChapters == 3

\* max_retries of visit_page when the caller passes none
DefaultRetries == 2

\* the characters of r'[\\/:*?"<>|]'
IllegalChars == {"\\", "/", ":", "*", "?", "\"", "<", ">", "|"}

\* re.sub(r'[\\/:*?"<>|]', '_', name)
sanitize_filename(name) ==
    [i \in DOMAIN name |-> IF name[i] \in IllegalChars THEN "_" ELSE name[i]]

\* the text of div.wr-num of a list item, "" when the element is missing
EpisodeNos == {<<>>, <<"1">>, <<"2">>, <<"1", "/", "2">>, <<"1", ":", "2">>}

\* a list item: its episode number and whether it holds a link with an href
ListItems == [no : EpisodeNos, link : BOOLEAN]

\* the tables of contents the walk is run on
EntryLists == UNION {[1..n -> ListItems] : n \in 0..MaxChapters}

\* os.path.join(base_folder, sanitize(f"{episode_no}회")) and
\* os.path.join(ep_folder, sanitize(f"{ep_no}회차.txt")); "H" and "C" stand
\* for the two Hangul syllables
EpisodePath(no) ==
    <<sanitize_filename(no \o <<"H">>),
      sanitize_filename(no \o <<"H", "C", ".", "t", "x", "t">>)>>

\* open(full_path, "w") and f.write: a file of that path is replaced
WriteFile(fs, path, by) ==
    {f \in fs : f.path # path} \cup {[path |-> path, by |-> by]}

(***************************************************************************)
(* What one call visit_page(url, m) can leave, from attempt a on with the  *)
(* session drv: the value returned, self.driver afterwards, and whether a  *)
(* driver.get of the call returned (current_url is then the URL asked      *)
(* for).  An attempt ends in the except branch (driver creation, stealth   *)
(* injection, navigation, load wait or clearing raised), in `return True`, *)
(* or at the end of the loop body after a failed load wait.                *)
(***************************************************************************)
RECURSIVE VisitOutcomes(_, _, _)
VisitOutcomes(drv, a, m) ==
    IF ~LoopGuard(a, m)
    THEN {[ok |-> FALSE, driver |-> drv, loaded |-> FALSE]}
    ELSE LET Handled(d) == IF AttemptsRemain(a, m) THEN "none" ELSE d
             Rest(d, ld) == {[o EXCEPT !.loaded = @ \/ ld] :
                                o \in VisitOutcomes(d, a + 1, m)}
         IN  (IF drv = "none"
              THEN Rest(Handled("none"), FALSE) \cup Rest(Handled("session"), FALSE)
              ELSE {})
             \cup Rest(Handled("session"), FALSE)
             \cup {[ok |-> TRUE, driver |-> "session", loaded |-> TRUE]}
             \cup Rest("session", TRUE)
             \cup Rest(Handled("session"), TRUE)

\* the variables of the navigator the scraper's steps do not touch
navigatorRest == <<session, sessions, stealth, cookies, localStorage,
                   sessionStorage, max_retries, attempt, elapsed, jsElapsed,
                   result, visits, hist>>

\* the crawler is constructed on a new navigator and the site's list
InitWalk ==
    /\ PaginatorIdle
    /\ ConverterIdle
    /\ WrapperIdle
    /\ FormatterIdle
    /\ PoolIdle
    /\ pc = "w_start"
    /\ driver = "none"
    /\ session = 0
    /\ sessions = 0
    /\ stealth = FALSE
    /\ cookies = FALSE
    /\ localStorage = FALSE
    /\ sessionStorage = FALSE
    /\ max_retries = 0
    /\ attempt = 0
    /\ elapsed = 0
    /\ jsElapsed = 0
    /\ result = "pending"
    /\ visits = 0
    /\ hist = NewHist
    /\ entries \in EntryLists
    /\ idx = 0
    /\ current_url = 0
    /\ files = {}
    /\ visited = <<>>
    /\ bases = <<>>
    /\ listed = FALSE

\* run: run_main_page, parse_main_info and make_base_folder; run returns
\* when the visit fails or the main information cannot be parsed
RunMainPage ==
    /\ pc = "w_start"
    /\ \E o \in VisitOutcomes(driver, 0, DefaultRetries) :
          /\ driver' = o.driver
          /\ IF o.ok
             THEN \E info \in BOOLEAN :
                     pc' = IF info THEN "w_list" ELSE "w_stopped"
             ELSE pc' = "w_stopped"
    /\ UNCHANGED <<navigatorRest, scraper, beyondScraper>>

\* parse_episode_list up to its loop: it returns when the page source, the
\* form, the list or the items are missing
ParseEpisodeList ==
    /\ pc = "w_list"
    /\ \E found \in BOOLEAN :
          IF found /\ Len(entries) > 0
          THEN /\ idx' = 1
               /\ listed' = TRUE
               /\ pc' = "w_entry"
          ELSE /\ pc' = "w_done"
               /\ UNCHANGED <<idx, listed>>
    /\ UNCHANGED <<driver, navigatorRest, entries, current_url, files, visited,
                   bases, beyondScraper>>

\* one pass of `for li in li_list` up to the call of crawl_episode_content:
\* urljoin(self.bypasser.driver.current_url, href) raises AttributeError when
\* the navigator has no session, and nothing up to main catches it
EpisodeEntry ==
    /\ pc = "w_entry"
    /\ IF idx > Len(entries)
       THEN /\ pc' = "w_done"
            /\ UNCHANGED <<idx, bases>>
       ELSE IF ~entries[idx].link
       THEN /\ idx' = idx + 1
            /\ UNCHANGED <<pc, bases>>
       ELSE IF driver = "none"
       THEN /\ pc' = "w_crashed"
            /\ UNCHANGED <<idx, bases>>
       ELSE /\ bases' = Append(bases, current_url)
            /\ pc' = "w_crawl"
            /\ UNCHANGED idx
    /\ UNCHANGED <<driver, navigatorRest, entries, current_url, files, visited,
                   listed, beyondScraper>>

\* crawl_episode_content: the visit, then the page source and div#novel_content
\* (each may be missing), then the file is written
CrawlEpisodeContent ==
    /\ pc = "w_crawl"
    /\ \E o \in VisitOutcomes(driver, 0, DefaultRetries) :
          /\ driver' = o.driver
          /\ current_url' = IF o.loaded THEN idx ELSE current_url
          /\ IF o.ok
             THEN \E page \in {"no_source", "no_content", "content"} :
                     IF page = "content"
                     THEN /\ files' = WriteFile(files,
                                                EpisodePath(entries[idx].no), idx)
                          /\ visited' = Append(visited,
                                               [ch |-> idx, saved |-> TRUE])
                     ELSE /\ visited' = Append(visited,
                                               [ch |-> idx, saved |-> FALSE])
                          /\ UNCHANGED files
             ELSE /\ visited' = Append(visited, [ch |-> idx, saved |-> FALSE])
                  /\ UNCHANGED files
    /\ idx' = idx + 1
    /\ pc' = "w_entry"
    /\ UNCHANGED <<navigatorRest, entries, bases, listed, beyondScraper>>

NextWalk ==
    \/ RunMainPage
    \/ ParseEpisodeList
    \/ EpisodeEntry
    \/ CrawlEpisodeContent

SpecWalk == InitWalk /\ [][NextWalk]_vars

(***************************************************************************)
(* The paginator's line wrapping: process_line and process_text.  The      *)
(* font is taken to measure a text by the sum of the advances of its       *)
(* characters.                                                             *)
(***************************************************************************)
\* the characters str.strip, str.rstrip and str.split take for whitespace
Whitespace == {" ", "\t", "\n", "\r"}

\* `not line.strip()`: the line is empty or holds whitespace only
IsBlank(str) == \A i \in 1..Len(str) : str[i] \in Whitespace

\* '\n'.join(current_page)
RECURSIVE JoinLines(_)
JoinLines(ls) ==
    IF Len(ls) = 0 THEN <<>>
    ELSE IF Len(ls) = 1 THEN ls[1]
    ELSE ls[1] \o <<"\n">> \o JoinLines(Tail(ls))

\* text.split('\n') of process_text, by which a page is read back into lines
RECURSIVE SplitLines(_)
SplitLines(str) ==
    LET breaks == {i \in 1..Len(str) : str[i] = "\n"} IN
    IF breaks = {} THEN <<str>>
    ELSE LET b == CHOOSE i \in breaks : \A j \in breaks : i <= j
         IN  <<SubSeq(str, 1, b - 1)>>
             \o SplitLines(SubSeq(str, b + 1, Len(str)))

\* longest text formatted or read from a file and wrapped
MaxTextLen == 5

\* the characters the texts are made of: a letter, a space and a line break
Chars == {"a", " ", "\n"}

\* the texts handed to the formatter and to the paginator
Texts == UNION {[1..n -> Chars] : n \in 0..MaxTextLen}

\* longest line handed to process_line
MaxLineLen == 7

\* largest available width tried, in pixels
MaxAvailable == 4

\* self.margin_left = 100
MarginLeft == 100

\* self.margin_right = 100
MarginRight == 100

\* self.width = 1500
Width == 1500

\* the characters of the lines wrapped: a narrow and a wide letter and a space
LineChars == {"a", "b", " "}

\* the lines handed to process_line
Lines == UNION {[1..n -> LineChars] : n \in 0..MaxLineLen}

\* the image widths the wrapping is tried with
Widths == {MarginLeft + MarginRight + a : a \in 1..MaxAvailable}

\* the advance of a character in the font: two pixels for the wide letter,
\* one for every other character
CharWidth(c) == IF c = "b" THEN 2 ELSE 1

\* calculate_text_width: font.getlength(text)
RECURSIVE calculate_text_width(_)
calculate_text_width(str) ==
    IF Len(str) = 0 THEN 0
    ELSE CharWidth(Head(str)) + calculate_text_width(Tail(str))

\* line.split(): the runs of characters between whitespace
RECURSIVE Words(_)
Words(str) ==
    IF Len(str) = 0 THEN <<>>
    ELSE IF Head(str) \in Whitespace THEN Words(Tail(str))
    ELSE LET stops == {i \in 1..Len(str) : str[i] \in Whitespace}
             end == IF stops = {} THEN Len(str) + 1
                    ELSE CHOOSE i \in stops : \A j \in stops : i <= j
         IN  <<SubSeq(str, 1, end - 1)>> \o Words(SubSeq(str, end, Len(str)))

\* ' '.join(current_line)
RECURSIVE JoinWords(_)
JoinWords(ws) ==
    IF Len(ws) = 0 THEN <<>>
    ELSE IF Len(ws) = 1 THEN ws[1]
    ELSE ws[1] \o <<" ">> \o JoinWords(Tail(ws))

\* available_width = max_width - self.margin_left - self.margin_right
AvailableWidth(max_width) == max_width - MarginLeft - MarginRight

\* word_width = self.calculate_text_width(word + ' ', font)
WordWidth(word) == calculate_text_width(word \o <<" ">>)

\* mutant: the test looks at the width before the word is added
Fits_BeforeAdding(current_width, word_width, available_width) ==
    current_width <= available_width

\* `if current_width + word_width <= available_width`
Fits(current_width, word_width, available_width) ==
    current_width + word_width <= available_width

\* mutant: the current line is appended even when it holds no word
AppendCurrent_Always(ls, current_line) == Append(ls, JoinWords(current_line))

\* `if current_line: lines.append(' '.join(current_line))`
AppendCurrent(ls, current_line) ==
    IF current_line # <<>> THEN Append(ls, JoinWords(current_line)) ELSE ls

\* the loop `for word in words` of process_line and the lines it returns
RECURSIVE PackWords(_, _, _, _, _)
PackWords(words, ls, current_line, current_width, available_width) ==
    IF Len(words) = 0
    THEN AppendCurrent(ls, current_line)
    ELSE LET word == Head(words)
             word_width == WordWidth(word)
         IN  IF Fits(current_width, word_width, available_width)
             THEN PackWords(Tail(words), ls, Append(current_line, word),
                            current_width + word_width, available_width)
             ELSE PackWords(Tail(words), AppendCurrent(ls, current_line),
                            <<word>>, word_width, available_width)

\* process_line(line, font, max_width)
process_line(str, max_width) ==
    IF Len(str) = 0 THEN <<str>>
    ELSE IF calculate_text_width(str) <= AvailableWidth(max_width) THEN <<str>>
    ELSE PackWords(Words(str), <<>>, <<>>, 0, AvailableWidth(max_width))

\* the loop `for line in lines` of process_text
RECURSIVE ProcessLines(_, _)
ProcessLines(ls, max_width) ==
    IF Len(ls) = 0 THEN <<>>
    ELSE (IF IsBlank(Head(ls)) THEN <<Head(ls)>>
          ELSE process_line(Head(ls), max_width))
         \o ProcessLines(Tail(ls), max_width)

\* process_text(text, font), with self.width for max_width
process_text(str, max_width) == ProcessLines(SplitLines(str), max_width)

\* process_text is about to hand a line to process_line
InitWrap ==
    /\ ScraperIdle
    /\ PaginatorIdle
    /\ FormatterIdle
    /\ PoolIdle
    /\ NavigatorNew
    /\ pc = "l_start"
    /\ content = <<>>
    /\ width \in Widths
    /\ line \in Lines
    /\ split_lines = <<>>

\* the call returns the sub-lines
ProcessLine ==
    /\ pc = "l_start"
    /\ split_lines' = process_line(line, width)
    /\ pc' = "l_done"
    /\ UNCHANGED <<browser, clocks, max_retries, attempt, result, visits, hist,
                   scraper, paginator, converter, formatter, pool, line>>

NextWrap == ProcessLine

SpecWrap == InitWrap /\ [][NextWrap]_vars

(***************************************************************************)
(* The paginator: process_file with split_into_pages.  A line is a         *)
(* sequence of characters, a page the lines joined by "\n".                *)
(***************************************************************************)
\* longest line sequence tried with every lines_per_page up to MaxPerPage
MaxLines == 4

\* largest lines_per_page tried with the short line sequences
MaxPerPage == 3

\* longest line sequence tried with the lines_per_page of __init__
MaxDefaultLines == 60

\* self.lines_per_page = 25
LinesPerPage == 25

\* the lines the short sequences are made of: an empty line, one word and
\* two words
LineSet == {<<>>, <<"a">>, <<"a", " ", "b">>}

\* mutant: the page is closed one line late
PageFull_Late(n, most) == n > most

\* `if len(current_page) >= self.lines_per_page`
PageFull(n, most) == n >= most

\* mutant: the pages are numbered from 0
PageNumber_FromZero(k) == k - 1

\* the number enumerate(pages, 1) gives the k-th page
PageNumber(k) == k

\* the decimal digits of n
RECURSIVE Digits(_)
Digits(n) ==
    LET d == <<"0", "1", "2", "3", "4", "5", "6", "7", "8", "9">> IN
    IF n < 10 THEN <<d[n + 1]>> ELSE Digits(n \div 10) \o <<d[(n % 10) + 1]>>

\* f'{i:03d}': the digits of i, with zeros in front up to three characters
RECURSIVE ZeroPad(_)
ZeroPad(str) == IF Len(str) >= 3 THEN str ELSE ZeroPad(<<"0">> \o str)

\* os.path.join(images_folder, f'{basename}_p{i:03d}.jpg')
ImagePath(i) == <<"basename", "_p">> \o ZeroPad(Digits(i)) \o <<".jpg">>

\* what a paginator task leaves alone: the navigator, the scraper, its own
\* file and image width, and the other components
beyondPaginator == <<driver, session, sessions, stealth, cookies, localStorage,
                     sessionStorage, max_retries, attempt, elapsed, jsElapsed,
                     result, visits, hist, scraper, converter, wrapper,
                     formatter, pool>>

\* a task of the pool: process_file on a file of short lines, on one of
\* numbered lines with the lines_per_page of __init__ (both with the image
\* width of __init__, which every line fits), or on a text that an image a
\* few pixels wide makes wrap
InitPaginate ==
    /\ ScraperIdle
    /\ WrapperIdle
    /\ FormatterIdle
    /\ PoolIdle
    /\ pc = "p_read"
    /\ driver = "none"
    /\ session = 0
    /\ sessions = 0
    /\ stealth = FALSE
    /\ cookies = FALSE
    /\ localStorage = FALSE
    /\ sessionStorage = FALSE
    /\ max_retries = 0
    /\ attempt = 0
    /\ elapsed = 0
    /\ jsElapsed = 0
    /\ result = "pending"
    /\ visits = 0
    /\ hist = NewHist
    /\ \/ /\ lines_per_page \in 1..MaxPerPage
          /\ width = Width
          /\ \E ls \in UNION {[1..n -> LineSet] : n \in 0..MaxLines} :
                content = JoinLines(ls)
       \/ /\ lines_per_page = LinesPerPage
          /\ width = Width
          /\ \E n \in 0..MaxDefaultLines :
                content = JoinLines([i \in 1..n |-> <<"line">> \o Digits(i)])
       \/ /\ lines_per_page \in 1..MaxPerPage
          /\ width \in Widths
          /\ content \in Texts
    /\ lines = <<>>
    /\ li = 1
    /\ current_page = <<>>
    /\ pages = <<>>
    /\ images = <<>>

\* process_file reads the file as utf-8, then as cp949; it returns when
\* neither decodes it, else process_text wraps the text into lines
ReadFile ==
    /\ pc = "p_read"
    /\ \E decoded \in BOOLEAN :
          IF decoded
          THEN /\ lines' = process_text(content, width)
               /\ pc' = "p_split"
          ELSE /\ pc' = "p_skipped"
               /\ UNCHANGED lines
    /\ UNCHANGED <<beyondPaginator, lines_per_page, li, current_page, pages,
                   images>>

\* split_into_pages: one pass of `for line in lines`
SplitLine ==
    /\ pc = "p_split"
    /\ li <= Len(lines)
    /\ IF PageFull(Len(current_page), lines_per_page)
       THEN /\ pages' = Append(pages, JoinLines(current_page))
            /\ current_page' = <<lines[li]>>
       ELSE /\ current_page' = Append(current_page, lines[li])
            /\ UNCHANGED pages
    /\ li' = li + 1
    /\ UNCHANGED <<pc, beyondPaginator, lines, lines_per_page, images>>

\* split_into_pages after the loop: `if current_page: pages.append(...)`
SplitEnd ==
    /\ pc = "p_split"
    /\ li > Len(lines)
    /\ IF current_page # <<>>
       THEN /\ pages' = Append(pages, JoinLines(current_page))
            /\ current_page' = <<>>
       ELSE UNCHANGED <<pages, current_page>>
    /\ pc' = "p_render"
    /\ UNCHANGED <<beyondPaginator, lines, lines_per_page, li, images>>

\* process_file: one pass of `for i, page_text in enumerate(pages, 1)`:
\* create_image_from_text wraps the text of the page again, draws the lines
\* it gets and saves the image
RenderPage ==
    /\ pc = "p_render"
    /\ Len(images) < Len(pages)
    /\ LET k == Len(images) + 1 IN
          images' = Append(images, [path |-> ImagePath(PageNumber(k)),
                                    text |-> pages[k],
                                    drawn |-> process_text(pages[k], width)])
    /\ UNCHANGED <<pc, beyondPaginator, lines, lines_per_page, li,
                   current_page, pages>>

\* process_file returns after the last page
ProcessFileEnd ==
    /\ pc = "p_render"
    /\ Len(images) = Len(pages)
    /\ pc' = "p_done"
    /\ UNCHANGED <<beyondPaginator, paginator>>

NextPaginate ==
    \/ ReadFile
    \/ SplitLine
    \/ SplitEnd
    \/ RenderPage
    \/ ProcessFileEnd

SpecPaginate == InitPaginate /\ [][NextPaginate]_vars

(***************************************************************************)
(* The worker pool: convert_novel_folder builds one task per text file and *)
(* hands them to Pool(num_processes).map(process_file, tasks).  map cuts   *)
(* the task list into chunks of ceil(len(tasks) / (4 * num_processes))     *)
(* consecutive tasks; a worker process takes a chunk from the shared queue *)
(* and runs its tasks in order; an exception that leaves process_file ends *)
(* the chunk, and map re-raises it once every chunk has ended.  A path is  *)
(* a sequence of characters.                                               *)
(***************************************************************************)
\* most directory entries of one episode folder
MaxFiles == 4

\* largest num_processes tried
MaxProcesses == 2

\* most failures of one run: files that do not decode, exceptions that leave
\* process_file, pages whose image is not drawn
MaxFaults == 1

\* the episode folders os.listdir(novel_folder) gives
EpisodeFolders == <<(<<"e", "1">>), (<<"e", "2">>)>>

\* the k-th entry of an episode folder
FileName(k) ==
    IF k = 1 THEN <<"a", ".", "t", "x", "t">>
    ELSE IF k = 2 THEN <<"a", ".", "b", ".", "t", "x", "t">>
    ELSE IF k = 3 THEN <<"a", ".", "j", "p", "g">>
    ELSE <<"c">> \o Digits(k) \o <<".", "t", "x", "t">>

\* f.endswith('.txt')
EndsWithTxt(name) ==
    /\ Len(name) >= 4
    /\ SubSeq(name, Len(name) - 3, Len(name)) = <<".", "t", "x", "t">>

\* mutant: the name is cut at its first dot
splitext_FirstDot(name) ==
    LET dots == {i \in 1..Len(name) : name[i] = "."} IN
    IF dots = {} THEN name
    ELSE SubSeq(name, 1, (CHOOSE i \in dots : \A j \in dots : i <= j) - 1)

\* os.path.splitext(name)[0]: the name up to its last dot, the whole name
\* when only dots come before that dot
splitext(name) ==
    LET dots == {i \in 1..Len(name) : name[i] = "."} IN
    IF dots = {} THEN name
    ELSE LET d == CHOOSE i \in dots : \A j \in dots : i >= j IN
         IF \E j \in 1..(d - 1) : name[j] # "." THEN SubSeq(name, 1, d - 1)
         ELSE name

\* os.path.join(episode_path, 'images')
ImagesFolder(episode_path) ==
    episode_path \o <<"/", "i", "m", "a", "g", "e", "s">>

\* os.path.join(images_folder, f'{basename}_p{i:03d}.jpg') of a task
TaskImagePath(task, i) ==
    task.images_folder \o <<"/">> \o splitext(task.txt_file) \o <<"_", "p">>
    \o ZeroPad(Digits(PageNumber(i))) \o <<".", "j", "p", "g">>

\* the pages split_into_pages makes of a file's text: two for the first
\* file of a folder, one for the others
PageCount(f, k) == IF k = 1 THEN 2 ELSE 1

\* the tasks of one episode folder holding the first n entries
RECURSIVE FolderTasks(_, _, _)
FolderTasks(f, k, n) ==
    IF k > n THEN <<>>
    ELSE (IF EndsWithTxt(FileName(k))
          THEN <<[folder |-> EpisodeFolders[f], txt_file |-> FileName(k),
                  images_folder |-> ImagesFolder(EpisodeFolders[f]),
                  pages |-> PageCount(f, k)]>>
          ELSE <<>>)
         \o FolderTasks(f, k + 1, n)

\* `tasks` of convert_novel_folder for a folder of n entries and one of n - 1
TaskList(n) == FolderTasks(1, 1, n) \o FolderTasks(2, 1, n - 1)

\* the chunk size of Pool.map when none is given
ChunkSize(n, procs) == (n + 4 * procs - 1) \div (4 * procs)

\* the chunks of task numbers map puts on the queue
RECURSIVE ChunksOf(_, _, _)
ChunksOf(from, n, size) ==
    IF from > n THEN <<>>
    ELSE LET to == IF from + size - 1 < n THEN from + size - 1 ELSE n
         IN  <<[i \in 1..(to - from + 1) |-> from + i - 1]>>
             \o ChunksOf(to + 1, n, size)

\* a worker process that holds no chunk
IdleWorker == [todo |-> <<>>, started |-> FALSE, page |-> 0]

\* convert_novel_folder up to pool.map: the tasks are on the queue
InitPool ==
    /\ ScraperIdle
    /\ PaginatorIdle
    /\ ConverterIdle
    /\ WrapperIdle
    /\ FormatterIdle
    /\ NavigatorNew
    /\ pc = "m_map"
    /\ \E n \in 0..MaxFiles : tasks = TaskList(n)
    /\ num_processes \in 1..MaxProcesses
    /\ queue = ChunksOf(1, Len(tasks), ChunkSize(Len(tasks), num_processes))
    /\ workers = [w \in 1..num_processes |-> IdleWorker]
    /\ status = [t \in 1..Len(tasks) |-> "queued"]
    /\ saved = [t \in 1..Len(tasks) |-> {}]
    /\ disk = {}

\* what a step of the pool leaves alone
beyondPool == <<browser, clocks, max_retries, attempt, result, visits, hist,
                scraper, paginator, converter, wrapper, formatter, tasks,
                num_processes>>

\* the pages task t has passed without an image: those of a finished task,
\* or of the task worker w is at
RECURSIVE Undrawn(_)
Undrawn(t) ==
    IF t = 0 THEN 0
    ELSE Undrawn(t - 1)
         + (IF status[t] = "done" THEN tasks[t].pages - Cardinality(saved[t])
            ELSE IF \E w \in DOMAIN workers :
                       /\ workers[w].todo # <<>>
                       /\ Head(workers[w].todo) = t
            THEN LET w == CHOOSE v \in DOMAIN workers :
                             /\ workers[v].todo # <<>>
                             /\ Head(workers[v].todo) = t
                 IN  workers[w].page - Cardinality(saved[t])
            ELSE 0)

\* the failures of the run so far
Faults ==
    Cardinality({t \in DOMAIN status : status[t] \in {"skipped", "raised"}})
    + Undrawn(Len(tasks))

\* an idle worker takes the next chunk from the queue
TakeChunk(w) ==
    /\ pc = "m_map"
    /\ workers[w].todo = <<>>
    /\ queue # <<>>
    /\ workers' = [workers EXCEPT ![w] = [IdleWorker EXCEPT !.todo = Head(queue)]]
    /\ queue' = Tail(queue)
    /\ UNCHANGED <<pc, beyondPool, status, saved, disk>>

\* an exception leaves process_file: the worker reports the chunk as failed
\* and the tasks of the chunk it had not come to are never run
ChunkRaised(w) ==
    LET t == Head(workers[w].todo)
        rest == {workers[w].todo[i] : i \in 2..Len(workers[w].todo)}
    IN  /\ status' = [u \in DOMAIN status |->
                         IF u = t THEN "raised"
                         ELSE IF u \in rest THEN "lost" ELSE status[u]]
        /\ workers' = [workers EXCEPT ![w] = IdleWorker]

\* process_file up to split_into_pages: the file is read (utf-8, then cp949;
\* the task returns when neither decodes it) and the font is loaded; open
\* and ImageFont.truetype raise what they raise
StartTask(w) ==
    /\ pc = "m_map"
    /\ workers[w].todo # <<>>
    /\ ~workers[w].started
    /\ LET t == Head(workers[w].todo) IN
       \/ /\ status' = [status EXCEPT ![t] = "running"]
          /\ workers' = [workers EXCEPT ![w].started = TRUE]
       \/ /\ Faults < MaxFaults
          /\ status' = [status EXCEPT ![t] = "skipped"]
          /\ workers' = [workers EXCEPT ![w].todo = Tail(@)]
       \/ /\ Faults < MaxFaults
          /\ ChunkRaised(w)
    /\ UNCHANGED <<pc, beyondPool, queue, saved, disk>>

\* img.save(output_path): the file of that path is replaced
SaveImage(d, path, t, i) ==
    {f \in d : f.path # path}
    \cup {[path |-> path, by |-> t, page |-> i,
           writers |-> {t} \cup UNION {f.writers : f \in {g \in d : g.path = path}}]}

\* one pass of `for i, page_text in enumerate(pages, 1)`:
\* create_image_from_text saves the image, returns without one when the font
\* does not load, or raises what drawing and saving raise
WritePage(w) ==
    /\ pc = "m_map"
    /\ workers[w].todo # <<>>
    /\ workers[w].started
    /\ LET t == Head(workers[w].todo)
           i == workers[w].page + 1
       IN  /\ i <= tasks[t].pages
           /\ \/ /\ disk' = SaveImage(disk, TaskImagePath(tasks[t], i), t, i)
                 /\ saved' = [saved EXCEPT ![t] = @ \cup {i}]
                 /\ workers' = [workers EXCEPT ![w].page = i]
                 /\ UNCHANGED status
              \/ /\ Faults < MaxFaults
                 /\ workers' = [workers EXCEPT ![w].page = i]
                 /\ UNCHANGED <<status, saved, disk>>
              \/ /\ Faults < MaxFaults
                 /\ ChunkRaised(w)
                 /\ UNCHANGED <<saved, disk>>
    /\ UNCHANGED <<pc, beyondPool, queue>>

\* process_file returns after its last page; the worker goes on in its chunk
FinishTask(w) ==
    /\ pc = "m_map"
    /\ workers[w].todo # <<>>
    /\ workers[w].started
    /\ LET t == Head(workers[w].todo) IN
          /\ workers[w].page = tasks[t].pages
          /\ status' = [status EXCEPT ![t] = "done"]
          /\ workers' = [workers EXCEPT ![w] =
                            [IdleWorker EXCEPT !.todo = Tail(workers[w].todo)]]
    /\ UNCHANGED <<pc, beyondPool, queue, saved, disk>>

\* pool.map returns when every chunk has ended, re-raising an exception a
\* chunk ended with; main prints the error instead of the completion message
MapReturns ==
    /\ pc = "m_map"
    /\ queue = <<>>
    /\ \A w \in DOMAIN workers : workers[w].todo = <<>>
    /\ pc' = IF \E t \in DOMAIN status : status[t] = "raised"
             THEN "m_failed" ELSE "m_done"
    /\ UNCHANGED <<beyondPool, pool>>

NextPool ==
    \/ \E w \in DOMAIN workers : TakeChunk(w)
    \/ \E w \in DOMAIN workers : StartTask(w)
    \/ \E w \in DOMAIN workers : WritePage(w)
    \/ \E w \in DOMAIN workers : FinishTask(w)
    \/ MapReturns

SpecPool == InitPool /\ [][NextPool]_vars

(***************************************************************************)
(* The scraper's text formatter: format_text_for_readability.              *)
(***************************************************************************)
\* largest max_line_length tried
MaxLineLength == 3

\* text.splitlines(): the pieces between line breaks, without the empty piece
\* after a final line break; no piece at all for the empty text
splitlines(str) ==
    LET parts == SplitLines(str) IN
    IF parts[Len(parts)] = <<>> THEN SubSeq(parts, 1, Len(parts) - 1) ELSE parts

\* str.rstrip()
RECURSIVE rstrip(_)
rstrip(str) ==
    IF Len(str) > 0 /\ str[Len(str)] \in Whitespace
    THEN rstrip(SubSeq(str, 1, Len(str) - 1))
    ELSE str

\* `if blank_count <= 1`, after the count of the run was raised
KeepBlank(blank_count) == blank_count <= 1

\* `while len(line) > max_line_length`: the chunks appended and the rest
RECURSIVE Chunks(_, _)
Chunks(str, n) ==
    IF Len(str) > n
    THEN <<SubSeq(str, 1, n)>> \o Chunks(SubSeq(str, n + 1, Len(str)), n)
    ELSE <<str>>

\* the loop `for line in lines` of format_text_for_readability
RECURSIVE FormatLines(_, _, _, _)
FormatLines(ls, blank_count, formatted_lines, n) ==
    IF Len(ls) = 0 THEN formatted_lines
    ELSE LET l == rstrip(Head(ls)) IN
         IF IsBlank(l)
         THEN FormatLines(Tail(ls), blank_count + 1,
                          IF KeepBlank(blank_count + 1)
                          THEN Append(formatted_lines, <<>>)
                          ELSE formatted_lines, n)
         ELSE FormatLines(Tail(ls), 0, formatted_lines \o Chunks(l, n), n)

\* format_text_for_readability(text, max_line_length)
format_text_for_readability(str, n) ==
    JoinLines(FormatLines(splitlines(str), 0, <<>>, n))

\* crawl_episode_content is about to format the text of a chapter
InitFormat ==
    /\ ScraperIdle
    /\ PaginatorIdle
    /\ ConverterIdle
    /\ WrapperIdle
    /\ PoolIdle
    /\ NavigatorNew
    /\ pc = "f_start"
    /\ text \in Texts
    /\ max_line_length \in 1..MaxLineLength
    /\ formatted = <<>>

\* the call returns the formatted text
FormatText ==
    /\ pc = "f_start"
    /\ formatted' = format_text_for_readability(text, max_line_length)
    /\ pc' = "f_done"
    /\ UNCHANGED <<browser, clocks, max_retries, attempt, result, visits, hist,
                   scraper, paginator, converter, wrapper, pool, text,
                   max_line_length>>

NextFormat == FormatText

SpecFormat == InitFormat /\ [][NextFormat]_vars

(***************************************************************************)
(* Properties of the navigator.                                            *)
(***************************************************************************)
\* the visit is over: visit_page has returned and no step of it remains
VisitOver == pc \in {"idle", "returned", "captcha", "closed"}

\* C1: one call of visit_page issues at most max_retries navigations; it
\* returns success with the first load wait that succeeds, with no navigation
\* after it, and returns failure only after max_retries failed attempts.
C1_AttemptBudget ==
    /\ hist.navCount <= max_retries
    /\ hist.navCount <= hist.failed + 1
    /\ hist.waitOk <= 1
    /\ hist.waitOk = 1 => result = "success"
    /\ result = "success" =>
          /\ VisitOver
          /\ hist.waitOk = 1
          /\ hist.failed = attempt
          /\ attempt < max_retries
    /\ result = "failure" =>
          /\ hist.waitOk = 0
          /\ hist.failed = max_retries
          /\ attempt = max_retries

\* C1 witness: a visit given the largest budget failed after spending it all
C1_Witness ==
    /\ result = "failure"
    /\ max_retries = MaxRetries
    /\ hist.navCount = MaxRetries
    /\ hist.failed = MaxRetries

\* C2: visit_page returns success only after verify_page_loaded succeeded in
\* the successful attempt.
C2_LoadedOnlyIfVerified == result = "success" => hist.verified = "ok"

\* C3: after an attempt that raised and was not the last, the session is
\* discarded (driver is none), and the next navigation is issued on a session
\* created in its own attempt, newer than the discarded one, with the stealth
\* script injected.
C3_SessionRecreated ==
    /\ (pc = "loop" /\ hist.prevEnd = "exception" /\ attempt < max_retries) =>
          (driver = "none" /\ session = 0)
    /\ (hist.lastNav.n > 0 /\ hist.lastNav.prevEnd = "exception") =>
          /\ hist.lastNav.fresh
          /\ hist.lastNav.stealth
          /\ hist.lastNav.session > hist.lastNav.prevSession

\* C3 witness: a navigation on a new session after an attempt whose session
\* was quit
C3_Witness ==
    /\ hist.lastNav.prevEnd = "exception"
    /\ hist.lastNav.prevSession > 0
    /\ hist.lastNav.session > hist.lastNav.prevSession
    /\ hist.lastNav.stealth

\* C4 as stated: every navigation of a visit that follows an attempt whose
\* page was loaded is issued after the delay, on a session that holds no
\* cookies, localStorage or sessionStorage (they were cleared in between).
C4_AlwaysCleared ==
    (hist.lastNav.n > 0 /\ hist.lastNav.prevEnd # "none"
        /\ hist.lastNav.prevLoaded) =>
       /\ ~hist.lastNav.cookies
       /\ ~hist.lastNav.localStorage
       /\ ~hist.lastNav.sessionStorage
       /\ hist.lastNav.slept

\* C4 amended: a navigation that follows an attempt ended by a load-wait
\* timeout, with no exception, is issued after cookies, localStorage and
\* sessionStorage were cleared, on a session that holds none of them; every
\* navigation after the first of a visit is issued after the inter-attempt
\* delay.
C4_ClearedAfterTimeout ==
    /\ (hist.lastNav.n > 0 /\ hist.lastNav.prevEnd = "timeout") =>
          /\ hist.lastNav.cleared
          /\ ~hist.lastNav.cookies
          /\ ~hist.lastNav.localStorage
          /\ ~hist.lastNav.sessionStorage
    /\ (hist.lastNav.n > 0 /\ hist.lastNav.prevEnd # "none") =>
          hist.lastNav.slept

\* C4 witness: the second navigation of a visit, after a load-wait timeout
C4_Witness ==
    /\ hist.lastNav.n = 2
    /\ hist.lastNav.prevEnd = "timeout"
    /\ hist.lastNav.prevLoaded
    /\ hist.lastNav.cleared
    /\ ~hist.lastNav.cookies

\* C5: in a visit whose page reads never show an interstitial phrase, none of
\* emulate_human_behavior, handle_turnstile and _wait_for_js_challenge is
\* called; and when no driver call raised and max_retries >= 1, visit_page
\* returns success at the first page read of the first attempt.
C5_CleanPageFirstPoll ==
    /\ ~hist.sawPhrase =>
          /\ hist.emulateCalls = 0
          /\ hist.turnstileCalls = 0
          /\ hist.jsCalls = 0
          /\ pc \notin {"emulate", "turnstile", "jswait"}
    /\ (pc = "returned" /\ ~hist.sawPhrase /\ hist.raised = 0
            /\ max_retries >= 1) =>
          /\ result = "success"
          /\ attempt = 0
          /\ hist.navCount = 1
          /\ hist.pollReads = 1

\* C5 witness: a visit returned success from its first page read, with the
\* page-structure check failed or not
C5_Witness ==
    /\ pc = "returned"
    /\ ~hist.sawPhrase
    /\ result = "success"
    /\ hist.pollReads = 1
    /\ hist.verified = "fail"

\* C6: every call of visit_page returns, whatever the pages show; the only
\* place the program can stay forever is the captcha prompt.
C6_VisitTerminates ==
    /\ (~VisitOver) ~> (pc = "returned")
    /\ <>(pc = "closed") \/ <>[](pc = "captcha")

\* C6 witness: the interstitial stayed through every attempt of the largest
\* budget, no driver call raised, and the visit returned failure
C6_Witness ==
    /\ pc = "returned"
    /\ result = "failure"
    /\ max_retries = MaxRetries
    /\ hist.raised = 0
    /\ hist.sawPhrase
    /\ hist.navCount = MaxRetries

\* the shortest pass of the challenge path: handle_turnstile sleeps before it
\* looks for the frame, and the caller sleeps after it returned False, or the
\* frame step and the caller sleep after it returned True
MinPass ==
    IF TurnstileFailSleep < AfterFrameSleep + TurnstileOkSleep
    THEN TurnstileSleep + TurnstileFailSleep
    ELSE TurnstileSleep + AfterFrameSleep + TurnstileOkSleep

\* the passes that can start before the load wait times out
MaxPasses == (PageLoadTimeout + MinPass - 1) \div MinPass

\* C15 as stated: in one attempt emulate_human_behavior and handle_turnstile
\* are each called at most once.
C15_ChallengeOncePerAttempt ==
    /\ hist.emulateCalls <= 1
    /\ hist.turnstileCalls <= 1

\* C15 amended: in one attempt the challenge path runs once for every page
\* read of the load wait that shows an interstitial phrase, the scrolls always
\* followed by the frame search, and at most MaxPasses times, the passes that
\* can start within the load timeout.
C15_ChallengePassesBounded ==
    /\ hist.emulateCalls <= MaxPasses
    /\ hist.emulateCalls <= hist.pollReads
    /\ hist.turnstileCalls <= hist.emulateCalls
    /\ hist.emulateCalls <= hist.turnstileCalls + 1
    /\ hist.emulateCalls = hist.turnstileCalls + 1 <=> pc = "turnstile"
    /\ hist.jsCalls <= hist.turnstileCalls

\* C15 witness: the load wait timed out after as many passes of the challenge
\* path as fit into it, all on the page of one navigation
C15_Witness ==
    /\ pc = "failed"
    /\ hist.emulateCalls = MaxPasses
    /\ hist.turnstileCalls = MaxPasses
    /\ MaxPasses > 1
    /\ hist.navCount = 1

\* C16: every navigation is issued on a session in which the stealth script
\* was injected after the session was created.
C16_NavigationsStealthed == hist.lastNav.n > 0 => hist.lastNav.stealth

(***************************************************************************)
(* Properties of the episode walk.                                         *)
(***************************************************************************)
\* the list items that hold a link, in list order
Chapters(es) == SelectSeq([i \in 1..Len(es) |-> i], LAMBDA i : es[i].link)

\* parse_episode_list has walked the list and is over, by return or by an
\* exception
WalkOver == listed /\ pc \in {"w_done", "w_crashed"}

\* C7: a chapter that fails writes no file and is skipped, and every later
\* chapter of the list is still visited, in list order: when the walk is
\* over, the chapters crawled are all the chapters of the list.
C7_WalkContinues ==
    /\ \A f \in files : \E i \in 1..Len(visited) :
          visited[i].ch = f.by /\ visited[i].saved
    /\ WalkOver => [i \in 1..Len(visited) |-> visited[i].ch] = Chapters(entries)

\* C8: after a walk over entries of pairwise different episode numbers in
\* which every chapter was fetched and saved, there are as many text files as
\* chapters and every chapter's file is still its own.
C8_OneFilePerChapter ==
    (/\ WalkOver
     /\ \A i, j \in 1..Len(entries) : i # j => entries[i].no # entries[j].no
     /\ Len(visited) = Len(Chapters(entries))
     /\ \A i \in 1..Len(visited) : visited[i].saved) =>
        /\ Cardinality(files) = Len(visited)
        /\ \A i \in 1..Len(visited) : \E f \in files : f.by = visited[i].ch

\* C17: every chapter link is resolved against the URL of the table of
\* contents, whatever was visited before it.
C17_BaseIsTableOfContents == \A i \in 1..Len(bases) : bases[i] = 0

(***************************************************************************)
(* Properties of the paginator.                                            *)
(***************************************************************************)
\* the number a string of decimal digits writes
RECURSIVE NumberOf(_)
NumberOf(str) ==
    IF Len(str) = 0 THEN 0
    ELSE 10 * NumberOf(SubSeq(str, 1, Len(str) - 1))
         + (CHOOSE d \in 0..9 : Digits(d) = <<str[Len(str)]>>)

\* the lines of the pages, one page after the other
RECURSIVE PageLinesOf(_)
PageLinesOf(ps) ==
    IF Len(ps) = 0 THEN <<>> ELSE SplitLines(Head(ps)) \o PageLinesOf(Tail(ps))

\* C9: for a file of L wrapped lines process_file writes ceil(L /
\* lines_per_page) images, the k-th named <basename>_p<k as three digits>.jpg.
C9_ImageCountAndNames ==
    pc = "p_done" =>
       /\ Len(images) = (Len(lines) + lines_per_page - 1) \div lines_per_page
       /\ \A k \in 1..Len(images) :
             LET path == images[k].path
                 index == SubSeq(path, 3, Len(path) - 1)
             IN  /\ path[1] = "basename"
                 /\ path[2] = "_p"
                 /\ path[Len(path)] = ".jpg"
                 /\ Len(index) = 3
                 /\ NumberOf(index) = k

\* C9 witness: 60 lines at 25 lines per page gave 3 images of 25, 25 and 10
\* lines
C9_Witness ==
    /\ pc = "p_done"
    /\ Len(lines) = 60
    /\ lines_per_page = 25
    /\ Len(images) = 3
    /\ images[3].path = <<"basename", "_p", "0", "0", "3", ".jpg">>
    /\ Len(SplitLines(images[1].text)) = 25
    /\ Len(SplitLines(images[2].text)) = 25
    /\ Len(SplitLines(images[3].text)) = 10

\* C10: the pages of split_into_pages hold at most lines_per_page lines each,
\* exactly lines_per_page but for the last, at least one, and their lines in
\* order are the input lines.
C10_LosslessPages ==
    pc \in {"p_render", "p_done"} =>
       /\ \A k \in 1..Len(pages) :
             /\ Len(SplitLines(pages[k])) >= 1
             /\ Len(SplitLines(pages[k])) <= lines_per_page
             /\ k < Len(pages) => Len(SplitLines(pages[k])) = lines_per_page
       /\ PageLinesOf(pages) = lines

\* C10 witness: a sequence with empty lines was split into full pages and a
\* shorter last page
C10_Witness ==
    /\ pc = "p_done"
    /\ Len(pages) = 2
    /\ lines_per_page = 3
    /\ Len(lines) = 4
    /\ lines[3] = <<>>
    /\ lines[4] = <<>>

(***************************************************************************)
(* Properties of the text formatter.                                       *)
(***************************************************************************)
\* the strings of a sequence, one after the other
RECURSIVE Flatten(_)
Flatten(ss) == IF Len(ss) = 0 THEN <<>> ELSE Head(ss) \o Flatten(Tail(ss))

\* C11: the text format_text_for_readability returns never holds two blank
\* lines in a row (blank: empty or whitespace only) nor a line longer than
\* max_line_length; a single input line longer than that comes out as its
\* consecutive chunks of max_line_length characters, the last one shorter or
\* equal.
C11_NoBlankRunsNoLongLines ==
    pc = "f_done" =>
       LET out == SplitLines(formatted) IN
       /\ \A i \in 1..(Len(out) - 1) : ~(IsBlank(out[i]) /\ IsBlank(out[i + 1]))
       /\ \A i \in 1..Len(out) : Len(out[i]) <= max_line_length
       /\ (Len(splitlines(text)) = 1 /\ ~IsBlank(text)) =>
             /\ Flatten(out) = rstrip(splitlines(text)[1])
             /\ \A i \in 1..(Len(out) - 1) : Len(out[i]) = max_line_length

(***************************************************************************)
(* Properties of the line wrapping.                                        *)
(***************************************************************************)
\* the words of the strings of a sequence, in order
RECURSIVE WordsOf(_)
WordsOf(ss) == IF Len(ss) = 0 THEN <<>> ELSE Words(Head(ss)) \o WordsOf(Tail(ss))

\* C12: for a line that is not blank and wider than the available width,
\* process_line returns sub-lines whose words, in order, are the words of the
\* line; each sub-line is its words joined by single spaces, and a sub-line
\* of more than one word is no wider than the available width.
C12_WordsKeptAndFit ==
    (/\ pc = "l_done"
     /\ ~IsBlank(line)
     /\ calculate_text_width(line) > AvailableWidth(width)) =>
       /\ WordsOf(split_lines) = Words(line)
       /\ \A i \in 1..Len(split_lines) :
             /\ split_lines[i] = JoinWords(Words(split_lines[i]))
             /\ Len(Words(split_lines[i])) >= 1
             /\ Len(Words(split_lines[i])) > 1 =>
                   calculate_text_width(split_lines[i]) <= AvailableWidth(width)

\* C12 witness: a line was split into a single word wider than the available
\* width and a sub-line of two words that fits
C12_Witness ==
    /\ pc = "l_done"
    /\ ~IsBlank(line)
    /\ Len(split_lines) = 2
    /\ Len(Words(split_lines[1])) = 1
    /\ calculate_text_width(split_lines[1]) > AvailableWidth(width)
    /\ Len(Words(split_lines[2])) = 2

(***************************************************************************)
(* Properties of the worker pool.                                          *)
(***************************************************************************)
\* the image paths a task writes to
ImagePaths(t) == {TaskImagePath(tasks[t], i) : i \in 1..tasks[t].pages}

\* the image files left when the tasks run one after another in list order,
\* each saving the pages it saved in this run
RECURSIVE SequentialDisk(_)
SequentialDisk(t) ==
    IF t = 0 THEN {}
    ELSE LET before == SequentialDisk(t - 1)
             mine == {[path |-> TaskImagePath(tasks[t], i), by |-> t, page |-> i] :
                         i \in saved[t]}
         IN  {f \in before : \A m \in mine : m.path # f.path} \cup mine

\* the pool is over: map has returned or raised
PoolOver == pc \in {"m_done", "m_failed"}

C14_FailureIsolated ==
    PoolOver =>
       \A t \in DOMAIN tasks :
          /\ status[t] \in {"done", "skipped", "raised"}
          /\ status[t] = "done" =>
                \A i \in saved[t] :
                   \E f \in disk : f.path = TaskImagePath(tasks[t], i) /\ f.by = t

(***************************************************************************)
(* Properties of the rendering.                                            *)
(***************************************************************************)
\* the smaller of two numbers
Min(a, b) == IF a < b THEN a ELSE b

\* C18: wrapping the wrapped lines again changes nothing, so the image of
\* the k-th page draws the k-th run of lines_per_page wrapped lines, in
\* order, and never more than lines_per_page lines.
C18_RenderDrawsPageLines ==
    pc \in {"p_render", "p_done"} =>
       /\ process_text(JoinLines(lines), width) = lines
       /\ \A k \in 1..Len(images) :
             /\ images[k].drawn
                   = SubSeq(lines, (k - 1) * lines_per_page + 1,
                            Min(k * lines_per_page, Len(lines)))
             /\ Len(images[k].drawn) <= lines_per_page
             /\ Len(images[k].drawn) >= 1

\* C18 witness: a line of three words was wrapped into a sub-line of two
\* words and one of one word, and each was drawn on an image of its own
C18_Witness ==
    /\ pc = "p_done"
    /\ lines_per_page = 1
    /\ Len(SplitLines(content)) = 1
    /\ Len(lines) = 2
    /\ Len(images) = 2
    /\ Len(Words(images[1].drawn[1])) = 2
    /\ images[2].drawn = <<lines[2]>>

====
